---- MODULE Spec2Model ----
(***************************************************************************)
(* The image optimisation pipeline of tools/image_pipeline.js: format      *)
(* selection (decideFormat), the average hash (aHash), the Hamming          *)
(* distance on hex strings (hammingDistanceHex), the greedy duplicate      *)
(* clustering (registerDuplicate), the per-file step (processImage) and    *)
(* the run (main) with its manifest, history and versioned snapshot.       *)
(*                                                                         *)
(* Representation.  A JavaScript value that may be null is a sequence of   *)
(* length 0 (null) or 1 (<<v>>).  A string that the code indexes (a hex    *)
(* fingerprint) is a sequence of one-character strings.  A path under the  *)
(* source root is a record [stem, ext]; the root itself (images/ for an    *)
(* original, data_dump/processed/images/ for an artifact) is implied by    *)
(* the collection holding the path.                                        *)
(***************************************************************************)
EXTENDS Integers, Sequences, FiniteSets, TLC

VARIABLES
  pc,               \* position of main(): start, walk, persist, done, failed
  clock,            \* wall clock, in seconds
  run,              \* number of runs started so far
  corpus,           \* the files of images/, in the order walk() yields them
  fileLimit,        \* how many files images/ holds at most
  cursor,           \* how many files of corpus the current walk has yielded
  inFlight,         \* the calls of processImage not yet settled: file and awaited step
  manifest,         \* main's manifest object
  duplicatesIndex,  \* main's duplicatesIndex object
  sourceDir,        \* images/: path -> bytes, of the files the walk has found
  processedDir,     \* data_dump/processed: output path -> bytes written
  reviewDir,        \* data_dump/duplicates: <<group id, file name>> -> bytes copied
  readmeFile,       \* data_dump/readme.txt
  manifestFile,     \* data_dump/manifest.json
  historyFile,      \* data_dump/history.json
  versionsDir,      \* data_dump/versions: version -> manifest.json snapshot
  exitCode,         \* process exit status of the last finished run
  probe             \* argument and result of a pure function under test

vars == <<pc, clock, run, corpus, fileLimit, cursor, inFlight, manifest, duplicatesIndex,
          sourceDir, processedDir, reviewDir, readmeFile, manifestFile, historyFile,
          versionsDir, exitCode, probe>>

(***************************************************************************)
(* Bounds of the model.                                                    *)
(***************************************************************************)
MaxFiles == 3        \* files of images/ when the script runs once
MaxRepeatFiles == 2  \* files of images/ when the script runs again
MaxClockFiles == 1   \* files of images/ when the clock advances between steps
MaxStepFiles == 2    \* files of images/ when processImage is taken await by await
MaxHistoryFiles == 1 \* files of images/ when history.json holds any JSON value
MaxRuns == 2         \* runs of the script
MaxTicks == 1        \* seconds that pass

(***************************************************************************)
(* CONFIG                                                                  *)
(***************************************************************************)
maxWidth == 2048
maxHeight == 2048
hashSize == 8
duplicateHammingThreshold == 5
includeExt == {".jpg", ".jpeg", ".png", ".gif", ".webp"}
SmallPngLimit == 256 * 1024

null == <<>>
Some(v) == <<v>>
Get(o) == o[1]

Infinity == 1000000

(***************************************************************************)
(* Small arithmetic helpers.                                               *)
(***************************************************************************)
\* s[lo] + ... + s[hi], by halves
RECURSIVE SumRange(_, _, _)
SumRange(s, lo, hi) ==
  IF lo > hi THEN 0
  ELSE IF lo = hi THEN s[lo]
  ELSE LET mid == (lo + hi) \div 2
       IN  SumRange(s, lo, mid) + SumRange(s, mid + 1, hi)

\* data.reduce((acc, v) => acc + v, 0)
Sum(s) == SumRange(s, 1, Len(s))

Bit(n, k) == (n \div (2 ^ k)) % 2

\* JavaScript's x ^ y on two values of 0..15
BitXor(x, y) ==
  ((Bit(x, 3) + Bit(y, 3)) % 2) * 8 + ((Bit(x, 2) + Bit(y, 2)) % 2) * 4
  + ((Bit(x, 1) + Bit(y, 1)) % 2) * 2 + ((Bit(x, 0) + Bit(y, 0)) % 2)

HexDigits == <<"0", "1", "2", "3", "4", "5", "6", "7",
               "8", "9", "a", "b", "c", "d", "e", "f">>

\* nibble.toString(16)
toString16(n) == HexDigits[n + 1]

\* parseInt(c, 16) of one hex character
parseInt16(c) == CHOOSE n \in 0..15 : HexDigits[n + 1] = c

\* String.prototype.toLowerCase on the extensions the model uses
toLowerCase(e) ==
  CASE e = ".JPG" -> ".jpg"
    [] e = ".PNG" -> ".png"
    [] e = ".GIF" -> ".gif"
    [] OTHER -> e

\* String(n) for the small numbers a group id needs
DecDigits == <<"0", "1", "2", "3", "4", "5", "6", "7", "8", "9">>
RECURSIVE String(_)
String(n) == IF n < 10 THEN DecDigits[n + 1]
             ELSE String(n \div 10) \o DecDigits[(n % 10) + 1]

(***************************************************************************)
(* nowTimestamp: the local time formatted to one-second resolution.  The   *)
(* clock of the model counts whole seconds; what happens within one second *)
(* happens at one clock value.                                             *)
(***************************************************************************)
nowTimestamp(t) == "t" \o String(t)

\* sha256(buf): a digest is modelled as the tagged content it was taken of
sha256(buf) == <<"sha256", buf>>

isImageExt(file) == toLowerCase(file.ext) \in includeExt

(***************************************************************************)
(* aHash.  sampled is null when sharp throws, else Some(data) with data    *)
(* the raw buffer of the 8x8 greyscale image.  v >= avg with               *)
(* avg = sum / data.length is v * data.length >= sum on the integers: the  *)
(* quotient's rounding error is far below 1 / data.length.                 *)
(***************************************************************************)
\* the bits with v > avg in place of v >= avg
BitsOfStrict(data) ==
  LET sum == Sum(data)
  IN  [i \in 1..Len(data) |-> IF data[i] * Len(data) > sum THEN 1 ELSE 0]

BitsOf(data) ==
  LET sum == Sum(data)
  IN  [i \in 1..Len(data) |-> IF data[i] * Len(data) >= sum THEN 1 ELSE 0]

\* bits[i] of a JavaScript array, 0-based; undefined << k is 0
BitAt(bits, i) == IF i + 1 <= Len(bits) THEN bits[i + 1] ELSE 0

Nibble(bits, i) ==
  BitAt(bits, i) * 8 + BitAt(bits, i + 1) * 4 + BitAt(bits, i + 2) * 2 + BitAt(bits, i + 3)

PackHex(bits) ==
  [k \in 1..((Len(bits) + 3) \div 4) |-> toString16(Nibble(bits, 4 * (k - 1)))]

aHash(sampled) ==
  IF sampled = null THEN null ELSE Some(PackHex(BitsOf(Get(sampled))))

(***************************************************************************)
(* hammingDistanceHex.  a and b are nullable hex strings.                  *)
(***************************************************************************)
BitCountTable == <<0, 1, 1, 2, 1, 2, 2, 3, 1, 2, 2, 3, 2, 3, 3, 4>>

\* !s for a nullable string: null and the empty string are falsy
Falsy(s) == s = null \/ Get(s) = <<>>

\* the loop adds BitCountTable[x] for the XOR x of each pair of digits; the
\* total is taken here as the number of pairs <<i, c>> with c in 1..the i-th addend
\* the distance counted in differing digits instead of differing bits
hammingDistanceHexDigits(a, b) ==
  IF Falsy(a) \/ Falsy(b) THEN Infinity
  ELSE IF Len(Get(a)) # Len(Get(b)) THEN Infinity
  ELSE Cardinality({i \in 1..Len(Get(a)) : Get(a)[i] # Get(b)[i]})

hammingDistanceHex(a, b) ==
  IF Falsy(a) \/ Falsy(b) THEN Infinity
  ELSE IF Len(Get(a)) # Len(Get(b)) THEN Infinity
  ELSE Cardinality(UNION {
         {<<i, c>> : c \in 1..BitCountTable[BitXor(parseInt16(Get(a)[i]),
                                                   parseInt16(Get(b)[i])) + 1]} :
         i \in 1..Len(Get(a))})

(***************************************************************************)
(* decideFormat.  ext is path.extname(inputPath); stat is null when        *)
(* fsp.stat throws (the catch swallows it), else Some(size).               *)
(***************************************************************************)
\* decideFormat with the alpha test ahead of the GIF test
decideFormatAlphaFirst(ext, hasAlpha, stat) ==
  LET e == toLowerCase(ext)
  IN  IF hasAlpha THEN "png"
      ELSE IF e = ".gif" THEN "gif"
      ELSE IF e = ".png" THEN "png"
      ELSE "jpeg"

decideFormat(ext, hasAlpha, stat) ==
  LET e == toLowerCase(ext)
      isPng == e = ".png"
      isGif == e = ".gif"
      isWebp == e = ".webp"
      isJpeg == e = ".jpg" \/ e = ".jpeg"
  IN  IF isGif THEN "gif"
      ELSE IF hasAlpha THEN "png"
      ELSE IF stat # null /\ isPng /\ Get(stat) < SmallPngLimit THEN "png"
      ELSE IF isJpeg \/ ~isPng \/ isWebp THEN "jpeg"
      ELSE IF isPng THEN "png" ELSE "jpeg"

(***************************************************************************)
(* registerDuplicate.  hash is a nullable hex string; the result holds the *)
(* returned id (nullable) and the index as the call leaves it.             *)
(***************************************************************************)
\* the scan with a best-match policy: the nearest group within the threshold
BestMatch(hash, groups, i) ==
  LET near == {k \in i..Len(groups) :
                 hammingDistanceHex(hash, groups[k].hash) <= duplicateHammingThreshold}
  IN  IF near = {} THEN 0
      ELSE CHOOSE k \in near :
             \A l \in near :
               \/ hammingDistanceHex(hash, groups[k].hash) < hammingDistanceHex(hash, groups[l].hash)
               \/ /\ hammingDistanceHex(hash, groups[k].hash) = hammingDistanceHex(hash, groups[l].hash)
                  /\ k <= l

\* the scan with dist < threshold in place of dist <= threshold
RECURSIVE FirstMatchStrict(_, _, _)
FirstMatchStrict(hash, groups, i) ==
  IF i > Len(groups) THEN 0
  ELSE IF hammingDistanceHex(hash, groups[i].hash) < duplicateHammingThreshold THEN i
  ELSE FirstMatchStrict(hash, groups, i + 1)

\* the scan accepting one bit more than the threshold
RECURSIVE FirstMatchLoose(_, _, _)
FirstMatchLoose(hash, groups, i) ==
  IF i > Len(groups) THEN 0
  ELSE IF hammingDistanceHex(hash, groups[i].hash) <= duplicateHammingThreshold + 1 THEN i
  ELSE FirstMatchLoose(hash, groups, i + 1)

\* the scan accepting an equal fingerprint only
RECURSIVE FirstMatchExact(_, _, _)
FirstMatchExact(hash, groups, i) ==
  IF i > Len(groups) THEN 0
  ELSE IF hammingDistanceHex(hash, groups[i].hash) = 0 THEN i
  ELSE FirstMatchExact(hash, groups, i + 1)

RECURSIVE FirstMatch(_, _, _)
FirstMatch(hash, groups, i) ==
  IF i > Len(groups) THEN 0
  ELSE IF hammingDistanceHex(hash, groups[i].hash) <= duplicateHammingThreshold THEN i
  ELSE FirstMatch(hash, groups, i + 1)

\* registerDuplicate numbering a new group dup-{count}
registerDuplicateIdFromZero(hash, relPath, index) ==
  IF Falsy(hash) THEN [id |-> null, index |-> index]
  ELSE LET m == FirstMatch(hash, index.groups, 1)
       IN  IF m > 0
           THEN [id |-> Some(index.groups[m].id),
                 index |-> [groups |-> [index.groups EXCEPT ![m].files = Append(@, relPath)]]]
           ELSE LET id == "dup-" \o String(Len(index.groups))
                IN  [id |-> Some(id),
                     index |-> [groups |-> Append(index.groups,
                                  [id |-> id, hash |-> hash, files |-> <<relPath>>])]]

\* registerDuplicate moving the representative to the newest member
registerDuplicateMovingHash(hash, relPath, index) ==
  IF Falsy(hash) THEN [id |-> null, index |-> index]
  ELSE LET m == FirstMatch(hash, index.groups, 1)
       IN  IF m > 0
           THEN [id |-> Some(index.groups[m].id),
                 index |-> [groups |-> [index.groups EXCEPT ![m].files = Append(@, relPath),
                                                            ![m].hash = hash]]]
           ELSE LET id == "dup-" \o String(Len(index.groups) + 1)
                IN  [id |-> Some(id),
                     index |-> [groups |-> Append(index.groups,
                                  [id |-> id, hash |-> hash, files |-> <<relPath>>])]]

\* registerDuplicate without the early return on a missing hash
registerDuplicateNoGuard(hash, relPath, index) ==
  LET m == FirstMatch(hash, index.groups, 1)
  IN  IF m > 0
      THEN [id |-> Some(index.groups[m].id),
            index |-> [groups |-> [index.groups EXCEPT ![m].files = Append(@, relPath)]]]
      ELSE LET id == "dup-" \o String(Len(index.groups) + 1)
           IN  [id |-> Some(id),
                index |-> [groups |-> Append(index.groups,
                             [id |-> id, hash |-> hash, files |-> <<relPath>>])]]

\* registerDuplicate putting a matched path at the head of the member list
registerDuplicateUnshift(hash, relPath, index) ==
  IF Falsy(hash) THEN [id |-> null, index |-> index]
  ELSE LET m == FirstMatch(hash, index.groups, 1)
       IN  IF m > 0
           THEN [id |-> Some(index.groups[m].id),
                 index |-> [groups |-> [index.groups EXCEPT ![m].files = <<relPath>> \o @]]]
           ELSE LET id == "dup-" \o String(Len(index.groups) + 1)
                IN  [id |-> Some(id),
                     index |-> [groups |-> Append(index.groups,
                                  [id |-> id, hash |-> hash, files |-> <<relPath>>])]]

\* registerDuplicate opening a group for every fingerprint
registerDuplicateAlwaysNew(hash, relPath, index) ==
  IF Falsy(hash) THEN [id |-> null, index |-> index]
  ELSE LET id == "dup-" \o String(Len(index.groups) + 1)
       IN  [id |-> Some(id),
            index |-> [groups |-> Append(index.groups,
                         [id |-> id, hash |-> hash, files |-> <<relPath>>])]]

registerDuplicate(hash, relPath, index) ==
  IF Falsy(hash) THEN [id |-> null, index |-> index]
  ELSE LET m == FirstMatch(hash, index.groups, 1)
       IN  IF m > 0
           THEN [id |-> Some(index.groups[m].id),
                 index |-> [groups |-> [index.groups EXCEPT ![m].files = Append(@, relPath)]]]
           ELSE LET id == "dup-" \o String(Len(index.groups) + 1)
                IN  [id |-> Some(id),
                     index |-> [groups |-> Append(index.groups,
                                  [id |-> id, hash |-> hash, files |-> <<relPath>>])]]

(***************************************************************************)
(* The files the walk can find.  A file is what the pipeline can observe   *)
(* of it: its name, what sharp's metadata() reports, its byte length, the  *)
(* step of processImage at which the file system or the codec fails for    *)
(* it (fault), and the raw 8x8 greyscale buffer sharp returns for its      *)
(* processed artifact (sample).                                            *)
(***************************************************************************)
Pixels == 1..(hashSize * hashSize)

\* an 8x8 one-channel buffer, bright exactly at the positions of S
GridOf(S) == [i \in Pixels |-> IF i \in S THEN 200 ELSE 40]

\* the buffer of an image with an alpha channel: grey and alpha interleaved
GridWithAlpha(S) ==
  [i \in 1..(2 * hashSize * hashSize) |->
     IF i % 2 = 0 THEN 255 ELSE IF ((i + 1) \div 2) \in S THEN 200 ELSE 40]

SampleNames == {"A", "P3", "P5", "B", "P40", "flat", "alpha", "fail"}

\* P3, P5 and B differ from A in 3, 5 and 6 pixels, P40 in 40
SampleData(n) ==
  CASE n = "A" -> Some(GridOf(1..32))
    [] n = "P3" -> Some(GridOf(4..32))
    [] n = "P5" -> Some(GridOf(6..32))
    [] n = "B" -> Some(GridOf(7..32))
    [] n = "P40" -> Some(GridOf(33..40))
    [] n = "flat" -> Some(GridOf({}))
    [] n = "alpha" -> Some(GridWithAlpha(1..32))
    [] OTHER -> null

\* aHash of each sample, computed once
Fingerprint == [n \in SampleNames |-> aHash(SampleData(n))]

File(stem, ext, hasAlpha, size, width, height, fault, sample) ==
  [stem |-> stem, ext |-> ext, hasAlpha |-> hasAlpha, size |-> size,
   width |-> width, height |-> height, fault |-> fault, sample |-> sample]

Catalogue ==
  { File("a", ".jpg", FALSE, 300000, 800, 600, "none", "A"),
    File("b", ".jpg", FALSE, 300000, 800, 600, "none", "B"),
    File("c", ".jpeg", FALSE, 300000, 800, 600, "none", "P5"),
    File("c", ".webp", FALSE, 90000, 800, 600, "none", "P3"),
    File("d", ".png", FALSE, 10240, 64, 64, "none", "P40"),
    File("e", ".png", FALSE, 5242880, 4000, 3000, "none", "A"),
    File("f", ".PNG", TRUE, 400000, 800, 600, "none", "alpha"),
    File("g", ".gif", FALSE, 700000, 3000, 200, "none", "B"),
    File("h", ".gif", FALSE, 700000, 100, 100, "decode", "B"),
    File("i", ".jpg", FALSE, 300000, 800, 600, "read", "A"),
    File("j", ".jpg", FALSE, 300000, 800, 600, "encode", "B"),
    File("k", ".JPG", FALSE, 300000, 800, 600, "write", "P5"),
    File("l", ".gif", FALSE, 700000, 100, 100, "copy", "A"),
    File("m", ".jpg", FALSE, 300000, 800, 600, "none", "fail"),
    File("n", ".txt", FALSE, 120, 0, 0, "none", "fail") }

PathOf(file) == [stem |-> file.stem, ext |-> file.ext]

\* fsp.readFile(srcFile)
ReadOriginal(file) == [content |-> <<"original", file.stem, file.ext>>, length |-> file.size]

\* pipeline.toBuffer(): the codec's output for this input, format and resize
Encode(buf, format, resized) ==
  [content |-> <<"encoded", format, resized, buf.content>>, length |-> (buf.length \div 2) + 1]

\* a directory as a function from path to content
Put(dir, path, content) ==
  [x \in (DOMAIN dir) \cup {path} |-> IF x = path THEN content ELSE dir[x]]

EmptyDir == [x \in {} |-> null]

(***************************************************************************)
(* processImage(srcFile, destFile, manifest, duplicatesIndex) at clock t.  *)
(* The result says whether the call threw (and with what message) and      *)
(* holds the manifest, the index and data_dump/processed as the call       *)
(* leaves them.                                                            *)
(***************************************************************************)
\* processImage calling registerDuplicate ahead of the write of the artifact
processImageRegisterFirst(file, t, man, index, pdir) ==
  LET rel == PathOf(file)
      destFile == PathOf(file)
      version == nowTimestamp(t)
      originalBuf == ReadOriginal(file)
      originalChecksum == sha256(originalBuf)
      targetFormat == decideFormat(file.ext, file.hasAlpha, Some(file.size))
      needResize == file.width # 0 /\ file.height # 0
                    /\ (file.width > maxWidth \/ file.height > maxHeight)
      outExt == IF targetFormat = "jpeg" THEN ".jpg"
                ELSE IF targetFormat = "png" THEN ".png" ELSE file.ext
      outPath == IF toLowerCase(file.ext) # outExt
                 THEN [destFile EXCEPT !.ext = outExt] ELSE destFile
      hash == Fingerprint[file.sample]
      reg == registerDuplicate(hash, rel, index)
      Throw(dir) == [threw |-> TRUE, error |-> file.fault \o " failed",
                     manifest |-> man,
                     index |-> IF file.fault = "write" THEN reg.index ELSE index,
                     processed |-> dir]
      Return(record, dir) ==
        [threw |-> FALSE, error |-> "",
         manifest |-> [man EXCEPT !.items = Append(@, record)],
         index |-> reg.index, processed |-> dir]
  IN  IF file.fault = "read" THEN Throw(pdir)
      ELSE IF file.fault = "decode" THEN Throw(pdir)
      ELSE IF targetFormat = "gif"
      THEN IF file.fault = "copy" THEN Throw(pdir)
           ELSE LET copied == Put(pdir, destFile, originalBuf)
                    processedBuf == copied[destFile]
                IN  Return([original |-> rel,
                            processed |-> destFile,
                            operations |-> <<"copy">>,
                            format |-> "gif",
                            resized |-> FALSE,
                            originalSize |-> originalBuf.length,
                            processedSize |-> processedBuf.length,
                            originalChecksum |-> originalChecksum,
                            processedChecksum |-> sha256(processedBuf),
                            duplicateGroup |-> reg.id,
                            version |-> version], copied)
      ELSE IF file.fault = "encode" THEN Throw(pdir)
      ELSE IF file.fault = "write" THEN Throw(pdir)
      ELSE LET processedBuf == Encode(originalBuf, targetFormat, needResize)
           IN  Return([original |-> rel,
                       processed |-> outPath,
                       operations |-> <<IF needResize THEN "resize" ELSE "none",
                                        "convert:" \o targetFormat, "compress">>,
                       format |-> targetFormat,
                       resized |-> needResize,
                       originalSize |-> originalBuf.length,
                       processedSize |-> processedBuf.length,
                       originalChecksum |-> originalChecksum,
                       processedChecksum |-> sha256(processedBuf),
                       duplicateGroup |-> reg.id,
                       version |-> version], Put(pdir, outPath, processedBuf))

\* processImage leaving a file whose artifact exists already out of the clustering
processImageSkipExisting(file, t, man, index, pdir) ==
  LET rel == PathOf(file)
      destFile == PathOf(file)
      version == nowTimestamp(t)
      originalBuf == ReadOriginal(file)
      originalChecksum == sha256(originalBuf)
      targetFormat == decideFormat(file.ext, file.hasAlpha, Some(file.size))
      needResize == file.width # 0 /\ file.height # 0
                    /\ (file.width > maxWidth \/ file.height > maxHeight)
      outExt == IF targetFormat = "jpeg" THEN ".jpg"
                ELSE IF targetFormat = "png" THEN ".png" ELSE file.ext
      outPath == IF toLowerCase(file.ext) # outExt
                 THEN [destFile EXCEPT !.ext = outExt] ELSE destFile
      hash == Fingerprint[file.sample]
      reg == IF outPath \in DOMAIN pdir THEN [id |-> null, index |-> index]
             ELSE registerDuplicate(hash, rel, index)
      Throw(dir) == [threw |-> TRUE, error |-> file.fault \o " failed",
                     manifest |-> man, index |-> index, processed |-> dir]
      Return(record, dir) ==
        [threw |-> FALSE, error |-> "",
         manifest |-> [man EXCEPT !.items = Append(@, record)],
         index |-> reg.index, processed |-> dir]
  IN  IF file.fault = "read" THEN Throw(pdir)
      ELSE IF file.fault = "decode" THEN Throw(pdir)
      ELSE IF targetFormat = "gif"
      THEN IF file.fault = "copy" THEN Throw(pdir)
           ELSE LET copied == Put(pdir, destFile, originalBuf)
                    processedBuf == copied[destFile]
                IN  Return([original |-> rel,
                            processed |-> destFile,
                            operations |-> <<"copy">>,
                            format |-> "gif",
                            resized |-> FALSE,
                            originalSize |-> originalBuf.length,
                            processedSize |-> processedBuf.length,
                            originalChecksum |-> originalChecksum,
                            processedChecksum |-> sha256(processedBuf),
                            duplicateGroup |-> reg.id,
                            version |-> version], copied)
      ELSE IF file.fault = "encode" THEN Throw(pdir)
      ELSE IF file.fault = "write" THEN Throw(pdir)
      ELSE LET processedBuf == Encode(originalBuf, targetFormat, needResize)
           IN  Return([original |-> rel,
                       processed |-> outPath,
                       operations |-> <<IF needResize THEN "resize" ELSE "none",
                                        "convert:" \o targetFormat, "compress">>,
                       format |-> targetFormat,
                       resized |-> needResize,
                       originalSize |-> originalBuf.length,
                       processedSize |-> processedBuf.length,
                       originalChecksum |-> originalChecksum,
                       processedChecksum |-> sha256(processedBuf),
                       duplicateGroup |-> reg.id,
                       version |-> version], Put(pdir, outPath, processedBuf))

\* processImage pushing its record ahead of the write of the artifact
processImagePushFirst(file, t, man, index, pdir) ==
  LET rel == PathOf(file)
      destFile == PathOf(file)
      version == nowTimestamp(t)
      originalBuf == ReadOriginal(file)
      originalChecksum == sha256(originalBuf)
      targetFormat == decideFormat(file.ext, file.hasAlpha, Some(file.size))
      needResize == file.width # 0 /\ file.height # 0
                    /\ (file.width > maxWidth \/ file.height > maxHeight)
      outExt == IF targetFormat = "jpeg" THEN ".jpg"
                ELSE IF targetFormat = "png" THEN ".png" ELSE file.ext
      outPath == IF toLowerCase(file.ext) # outExt
                 THEN [destFile EXCEPT !.ext = outExt] ELSE destFile
      hash == Fingerprint[file.sample]
      reg == registerDuplicate(hash, rel, index)
      Throw(dir) == [threw |-> TRUE, error |-> file.fault \o " failed",
                     manifest |-> man, index |-> index, processed |-> dir]
      Return(record, dir) ==
        [threw |-> FALSE, error |-> "",
         manifest |-> [man EXCEPT !.items = Append(@, record)],
         index |-> reg.index, processed |-> dir]
  IN  IF file.fault = "read" THEN Throw(pdir)
      ELSE IF file.fault = "decode" THEN Throw(pdir)
      ELSE IF targetFormat = "gif"
      THEN IF file.fault = "copy" THEN Throw(pdir)
           ELSE LET copied == Put(pdir, destFile, originalBuf)
                    processedBuf == copied[destFile]
                IN  Return([original |-> rel,
                            processed |-> destFile,
                            operations |-> <<"copy">>,
                            format |-> "gif",
                            resized |-> FALSE,
                            originalSize |-> originalBuf.length,
                            processedSize |-> processedBuf.length,
                            originalChecksum |-> originalChecksum,
                            processedChecksum |-> sha256(processedBuf),
                            duplicateGroup |-> reg.id,
                            version |-> version], copied)
      ELSE IF file.fault = "encode" THEN Throw(pdir)
      ELSE IF file.fault = "write"
      THEN [Throw(pdir) EXCEPT !.manifest.items =
              Append(@, [original |-> rel, processed |-> outPath, format |-> targetFormat])]
      ELSE LET processedBuf == Encode(originalBuf, targetFormat, needResize)
           IN  Return([original |-> rel,
                       processed |-> outPath,
                       operations |-> <<IF needResize THEN "resize" ELSE "none",
                                        "convert:" \o targetFormat, "compress">>,
                       format |-> targetFormat,
                       resized |-> needResize,
                       originalSize |-> originalBuf.length,
                       processedSize |-> processedBuf.length,
                       originalChecksum |-> originalChecksum,
                       processedChecksum |-> sha256(processedBuf),
                       duplicateGroup |-> reg.id,
                       version |-> version], Put(pdir, outPath, processedBuf))

\* processImage never tagging the resize
processImageUntagged(file, t, man, index, pdir) ==
  LET rel == PathOf(file)
      destFile == PathOf(file)
      version == nowTimestamp(t)
      originalBuf == ReadOriginal(file)
      originalChecksum == sha256(originalBuf)
      targetFormat == decideFormat(file.ext, file.hasAlpha, Some(file.size))
      needResize == file.width # 0 /\ file.height # 0
                    /\ (file.width > maxWidth \/ file.height > maxHeight)
      outExt == IF targetFormat = "jpeg" THEN ".jpg"
                ELSE IF targetFormat = "png" THEN ".png" ELSE file.ext
      outPath == IF toLowerCase(file.ext) # outExt
                 THEN [destFile EXCEPT !.ext = outExt] ELSE destFile
      hash == Fingerprint[file.sample]
      reg == registerDuplicate(hash, rel, index)
      Throw(dir) == [threw |-> TRUE, error |-> file.fault \o " failed",
                     manifest |-> man, index |-> index, processed |-> dir]
      Return(record, dir) ==
        [threw |-> FALSE, error |-> "",
         manifest |-> [man EXCEPT !.items = Append(@, record)],
         index |-> reg.index, processed |-> dir]
  IN  IF file.fault = "read" THEN Throw(pdir)
      ELSE IF file.fault = "decode" THEN Throw(pdir)
      ELSE IF targetFormat = "gif"
      THEN IF file.fault = "copy" THEN Throw(pdir)
           ELSE LET copied == Put(pdir, destFile, originalBuf)
                    processedBuf == copied[destFile]
                IN  Return([original |-> rel,
                            processed |-> destFile,
                            operations |-> <<"copy">>,
                            format |-> "gif",
                            resized |-> FALSE,
                            originalSize |-> originalBuf.length,
                            processedSize |-> processedBuf.length,
                            originalChecksum |-> originalChecksum,
                            processedChecksum |-> sha256(processedBuf),
                            duplicateGroup |-> reg.id,
                            version |-> version], copied)
      ELSE IF file.fault = "encode" THEN Throw(pdir)
      ELSE IF file.fault = "write" THEN Throw(pdir)
      ELSE LET processedBuf == Encode(originalBuf, targetFormat, needResize)
           IN  Return([original |-> rel,
                       processed |-> outPath,
                       operations |-> <<"none",
                                        "convert:" \o targetFormat, "compress">>,
                       format |-> targetFormat,
                       resized |-> needResize,
                       originalSize |-> originalBuf.length,
                       processedSize |-> processedBuf.length,
                       originalChecksum |-> originalChecksum,
                       processedChecksum |-> sha256(processedBuf),
                       duplicateGroup |-> reg.id,
                       version |-> version], Put(pdir, outPath, processedBuf))

processImage(file, t, man, index, pdir) ==
  LET rel == PathOf(file)
      destFile == PathOf(file)
      version == nowTimestamp(t)
      originalBuf == ReadOriginal(file)
      originalChecksum == sha256(originalBuf)
      targetFormat == decideFormat(file.ext, file.hasAlpha, Some(file.size))
      needResize == file.width # 0 /\ file.height # 0
                    /\ (file.width > maxWidth \/ file.height > maxHeight)
      outExt == IF targetFormat = "jpeg" THEN ".jpg"
                ELSE IF targetFormat = "png" THEN ".png" ELSE file.ext
      outPath == IF toLowerCase(file.ext) # outExt
                 THEN [destFile EXCEPT !.ext = outExt] ELSE destFile
      hash == Fingerprint[file.sample]
      reg == registerDuplicate(hash, rel, index)
      Throw(dir) == [threw |-> TRUE, error |-> file.fault \o " failed",
                     manifest |-> man, index |-> index, processed |-> dir]
      Return(record, dir) ==
        [threw |-> FALSE, error |-> "",
         manifest |-> [man EXCEPT !.items = Append(@, record)],
         index |-> reg.index, processed |-> dir]
  IN  IF file.fault = "read" THEN Throw(pdir)
      ELSE IF file.fault = "decode" THEN Throw(pdir)
      ELSE IF targetFormat = "gif"
      THEN IF file.fault = "copy" THEN Throw(pdir)
           ELSE LET copied == Put(pdir, destFile, originalBuf)
                    processedBuf == copied[destFile]
                IN  Return([original |-> rel,
                            processed |-> destFile,
                            operations |-> <<"copy">>,
                            format |-> "gif",
                            resized |-> FALSE,
                            originalSize |-> originalBuf.length,
                            processedSize |-> processedBuf.length,
                            originalChecksum |-> originalChecksum,
                            processedChecksum |-> sha256(processedBuf),
                            duplicateGroup |-> reg.id,
                            version |-> version], copied)
      ELSE IF file.fault = "encode" THEN Throw(pdir)
      ELSE IF file.fault = "write" THEN Throw(pdir)
      ELSE LET processedBuf == Encode(originalBuf, targetFormat, needResize)
           IN  Return([original |-> rel,
                       processed |-> outPath,
                       operations |-> <<IF needResize THEN "resize" ELSE "none",
                                        "convert:" \o targetFormat, "compress">>,
                       format |-> targetFormat,
                       resized |-> needResize,
                       originalSize |-> originalBuf.length,
                       processedSize |-> processedBuf.length,
                       originalChecksum |-> originalChecksum,
                       processedChecksum |-> sha256(processedBuf),
                       duplicateGroup |-> reg.id,
                       version |-> version], Put(pdir, outPath, processedBuf))

(***************************************************************************)
(* main                                                                    *)
(***************************************************************************)
NoManifest == [version |-> "", config |-> <<>>, items |-> <<>>, duplicates |-> <<>>]
NoIndex == [groups |-> <<>>]

ConfigEcho ==
  [maxWidth |-> maxWidth, maxHeight |-> maxHeight, jpegQuality |-> 80,
   pngCompressionLevel |-> 9, duplicateHammingThreshold |-> duplicateHammingThreshold]

\* JSON.stringify(value): the text of a file
Stringify(value, isArray) == [kind |-> "json", array |-> isArray, value |-> value]

Garbage == [kind |-> "garbage"]

\* lines 300-317: the text of readme.txt
Readme == "Calma Image Optimization Data Dump"

\* what history.json can hold when the first run starts
PriorHistories ==
  { null,
    Some(Garbage),
    Some(Stringify(<<[version |-> "t-1", manifest |-> "manifest.json",
                      items |-> 4, duplicates |-> 1]>>, TRUE)) }

InitWith(limit) ==
  /\ pc = "start"
  /\ clock = 0
  /\ run = 1
  /\ corpus = <<>>
  /\ fileLimit = limit
  /\ cursor = 0
  /\ inFlight = {}
  /\ manifest = NoManifest
  /\ duplicatesIndex = NoIndex
  /\ sourceDir = EmptyDir
  /\ processedDir = EmptyDir
  /\ reviewDir = EmptyDir
  /\ readmeFile = null
  /\ manifestFile = null
  /\ historyFile \in PriorHistories
  /\ versionsDir = EmptyDir
  /\ exitCode = null
  /\ probe = null

Init == InitWith(MaxFiles)

\* time passes
Tick ==
  /\ clock < MaxTicks
  /\ clock' = clock + 1
  /\ UNCHANGED <<pc, run, corpus, fileLimit, inFlight, cursor, manifest, duplicatesIndex, sourceDir,
                 processedDir, reviewDir, readmeFile,
                 manifestFile, historyFile, versionsDir, exitCode, probe>>

\* the start of main with the number of the run appended to the version tag
SetupUniqueTag ==
  /\ pc = "start"
  /\ \E created \in BOOLEAN :
       IF created
       THEN /\ manifest' = [version |-> nowTimestamp(clock) \o "-" \o String(run), config |-> ConfigEcho,
                            items |-> <<>>, duplicates |-> <<>>]
            /\ duplicatesIndex' = NoIndex
            /\ cursor' = 0
            /\ pc' = "walk"
            /\ exitCode' = null
       ELSE /\ pc' = "failed"
            /\ exitCode' = Some(1)
            /\ UNCHANGED <<manifest, duplicatesIndex, cursor>>
  /\ UNCHANGED <<clock, run, corpus, fileLimit, inFlight, sourceDir, processedDir, reviewDir,
                 readmeFile, manifestFile, historyFile,
                 versionsDir, probe>>

\* lines 222-243: the output directories, the manifest and the index
Setup ==
  /\ pc = "start"
  /\ \E created \in BOOLEAN :
       IF created
       THEN /\ manifest' = [version |-> nowTimestamp(clock), config |-> ConfigEcho,
                            items |-> <<>>, duplicates |-> <<>>]
            /\ duplicatesIndex' = NoIndex
            /\ cursor' = 0
            /\ pc' = "walk"
            /\ exitCode' = null
       ELSE /\ pc' = "failed"
            /\ exitCode' = Some(1)
            /\ UNCHANGED <<manifest, duplicatesIndex, cursor>>
  /\ UNCHANGED <<clock, run, corpus, fileLimit, inFlight, sourceDir, processedDir, reviewDir,
                 readmeFile, manifestFile, historyFile,
                 versionsDir, probe>>

\* the file walk() yields next: the first run finds the files of images/,
\* a later run finds the same files in the same order
Yields(file) ==
  IF cursor < Len(corpus) THEN file = corpus[cursor + 1]
  ELSE /\ run = 1
       /\ Len(corpus) < fileLimit
       /\ file \in Catalogue
       /\ \A i \in 1..Len(corpus) : PathOf(corpus[i]) # PathOf(file)

Yielded(file) ==
  /\ corpus' = IF cursor < Len(corpus) THEN corpus ELSE Append(corpus, file)
  /\ sourceDir' = IF cursor < Len(corpus) THEN sourceDir
                  ELSE Put(sourceDir, PathOf(file), ReadOriginal(file))
  /\ cursor' = cursor + 1
  /\ UNCHANGED <<fileLimit, inFlight>>

\* line 249: a file that is no image is passed over
SkipFile ==
  /\ pc = "walk"
  /\ inFlight = {}
  /\ \E file \in Catalogue :
       /\ Yields(file)
       /\ ~isImageExt(file)
       /\ Yielded(file)
  /\ UNCHANGED <<pc, clock, run, manifest, duplicatesIndex, processedDir, reviewDir,
                 readmeFile, manifestFile, historyFile, versionsDir, exitCode, probe>>

\* the loop body without its try/catch: a failure of processImage leaves main
ProcessFileNoCatch ==
  /\ pc = "walk"
  /\ \E file \in Catalogue :
       /\ Yields(file)
       /\ isImageExt(file)
       /\ Yielded(file)
       /\ LET r == processImage(file, clock, manifest, duplicatesIndex, processedDir)
          IN  /\ manifest' = r.manifest
              /\ duplicatesIndex' = r.index
              /\ processedDir' = r.processed
              /\ pc' = IF r.threw THEN "failed" ELSE pc
              /\ exitCode' = IF r.threw THEN Some(1) ELSE exitCode
  /\ UNCHANGED <<clock, run, reviewDir, readmeFile, manifestFile, historyFile, versionsDir,
                 probe>>

\* the loop body with outFile under the source root instead of processedRoot
ProcessFileInPlace ==
  /\ pc = "walk"
  /\ \E file \in Catalogue :
       /\ Yields(file)
       /\ isImageExt(file)
       /\ corpus' = IF cursor < Len(corpus) THEN corpus ELSE Append(corpus, file)
       /\ cursor' = cursor + 1
       /\ LET r == processImage(file, clock, manifest, duplicatesIndex,
                                Put(sourceDir, PathOf(file), ReadOriginal(file)))
          IN  /\ manifest' =
                   IF r.threw
                   THEN [r.manifest EXCEPT !.items =
                           Append(@, [original |-> PathOf(file), error |-> r.error])]
                   ELSE r.manifest
              /\ duplicatesIndex' = r.index
              /\ sourceDir' = r.processed
  /\ UNCHANGED <<pc, clock, run, fileLimit, inFlight, processedDir, reviewDir, readmeFile, manifestFile,
                 historyFile, versionsDir, exitCode, probe>>

\* lines 250-260: one file through processImage, its failure caught
ProcessFile ==
  /\ pc = "walk"
  /\ \E file \in Catalogue :
       /\ Yields(file)
       /\ isImageExt(file)
       /\ Yielded(file)
       /\ LET r == processImage(file, clock, manifest, duplicatesIndex, processedDir)
          IN  /\ manifest' =
                   IF r.threw
                   THEN [r.manifest EXCEPT !.items =
                           Append(@, [original |-> PathOf(file), error |-> r.error])]
                   ELSE r.manifest
              /\ duplicatesIndex' = r.index
              /\ processedDir' = r.processed
  /\ UNCHANGED <<pc, clock, run, reviewDir, readmeFile, manifestFile, historyFile,
                 versionsDir, exitCode, probe>>

\* lines 264-278: the groups of two or more files go to manifest.duplicates
\* the final pass with files.length < 1 in place of files.length <= 1
RECURSIVE FinalizeGroupsKeepSingletons(_, _)
FinalizeGroupsKeepSingletons(groups, i) ==
  IF i > Len(groups) THEN <<>>
  ELSE IF Len(groups[i].files) < 1 THEN FinalizeGroupsKeepSingletons(groups, i + 1)
  ELSE <<[id |-> groups[i].id, files |-> groups[i].files]>>
         \o FinalizeGroupsKeepSingletons(groups, i + 1)

RECURSIVE FinalizeGroups(_, _)
FinalizeGroups(groups, i) ==
  IF i > Len(groups) THEN <<>>
  ELSE IF Len(groups[i].files) <= 1 THEN FinalizeGroups(groups, i + 1)
  ELSE <<[id |-> groups[i].id, files |-> groups[i].files]>> \o FinalizeGroups(groups, i + 1)

\* lines 267-276: every member of a group of two or more files is copied from
\* images/ to data_dump/duplicates/<id>/ under its file name
ReviewCopies(groups, source, dir) ==
  LET copied == UNION {{<<groups[i].id, groups[i].files[k]>> : k \in 1..Len(groups[i].files)} :
                         i \in {j \in 1..Len(groups) : Len(groups[j].files) > 1}}
  IN  [x \in (DOMAIN dir) \cup copied |-> IF x \in copied THEN source[x[2]] ELSE dir[x]]

Finalize ==
  /\ pc = "walk"
  /\ inFlight = {}
  /\ cursor = Len(corpus)
  /\ manifest' = [manifest EXCEPT !.duplicates = @ \o FinalizeGroups(duplicatesIndex.groups, 1)]
  /\ reviewDir' = ReviewCopies(duplicatesIndex.groups, sourceDir, reviewDir)
  /\ pc' = "persist"
  /\ UNCHANGED <<clock, run, corpus, fileLimit, inFlight, cursor, duplicatesIndex, sourceDir,
                 processedDir, readmeFile, manifestFile, historyFile, versionsDir,
                 exitCode, probe>>

\* the history always started afresh
ReadHistoryFresh(file) == [array |-> TRUE, value |-> <<>>]

\* lines 285-290: the history read back, [] when absent or unparsable
ReadHistory(file) ==
  IF file = null THEN [array |-> TRUE, value |-> <<>>]
  ELSE IF Get(file).kind = "garbage" THEN [array |-> TRUE, value |-> <<>>]
  ELSE [array |-> Get(file).array, value |-> Get(file).value]

\* the snapshot taken of the manifest as it was ahead of the final pass
PersistEarlySnapshot ==
  /\ pc = "persist"
  /\ manifestFile' = Some(Stringify(manifest, FALSE))
  /\ LET history == ReadHistory(historyFile)
         entry == [version |-> manifest.version, manifest |-> "manifest.json",
                   items |-> Len(manifest.items), duplicates |-> Len(manifest.duplicates)]
     IN  IF history.array
         THEN /\ historyFile' = Some(Stringify(Append(history.value, entry), TRUE))
              /\ versionsDir' = Put(versionsDir, manifest.version,
                                    Stringify([manifest EXCEPT !.duplicates = <<>>], FALSE))
              /\ readmeFile' = Some(Readme)
              /\ pc' = "done"
              /\ exitCode' = Some(0)
         ELSE /\ pc' = "failed"
              /\ exitCode' = Some(1)
              /\ UNCHANGED <<historyFile, versionsDir, readmeFile>>
  /\ UNCHANGED <<clock, run, corpus, fileLimit, inFlight, cursor, manifest, duplicatesIndex,
                 sourceDir, processedDir, reviewDir, probe>>

\* lines 280-324: manifest.json, history.json, the snapshot
Persist ==
  /\ pc = "persist"
  /\ manifestFile' = Some(Stringify(manifest, FALSE))
  /\ LET history == ReadHistory(historyFile)
         entry == [version |-> manifest.version, manifest |-> "manifest.json",
                   items |-> Len(manifest.items), duplicates |-> Len(manifest.duplicates)]
     IN  IF history.array
         THEN /\ historyFile' = Some(Stringify(Append(history.value, entry), TRUE))
              /\ versionsDir' = Put(versionsDir, manifest.version, Stringify(manifest, FALSE))
              /\ readmeFile' = Some(Readme)
              /\ pc' = "done"
              /\ exitCode' = Some(0)
         ELSE /\ pc' = "failed"
              /\ exitCode' = Some(1)
              /\ UNCHANGED <<historyFile, versionsDir, readmeFile>>
  /\ UNCHANGED <<clock, run, corpus, fileLimit, inFlight, cursor, manifest, duplicatesIndex,
                 sourceDir, processedDir, reviewDir, probe>>

\* the script is started again
NewRun ==
  /\ pc \in {"done", "failed"}
  /\ run < MaxRuns
  /\ run' = run + 1
  /\ pc' = "start"
  /\ manifest' = NoManifest
  /\ duplicatesIndex' = NoIndex
  /\ cursor' = 0
  /\ UNCHANGED <<clock, corpus, fileLimit, inFlight, sourceDir, processedDir, reviewDir, readmeFile,
                 manifestFile, historyFile, versionsDir,
                 exitCode, probe>>

\* one run of the script
Next == Setup \/ SkipFile \/ ProcessFile \/ Finalize \/ Persist

Spec == Init /\ [][Next]_vars

\* the script run again over the same files, all within one second; each step
\* of main is taken once its I/O has completed, and nothing makes the script
\* start again
InitRepeat == InitWith(MaxRepeatFiles)

NextRepeat == Next \/ NewRun

SpecRepeat == InitRepeat /\ [][NextRepeat]_vars

FairSpec == SpecRepeat /\ WF_vars(Next)

\* the script run again while time passes
InitClock == InitWith(MaxClockFiles)

NextClock == Next \/ NewRun \/ Tick

SpecClock == InitClock /\ [][NextClock]_vars

(***************************************************************************)
(* One run on a file system that can refuse to create a directory at any   *)
(* of the later calls of ensureDirSync, none of which is inside a try:     *)
(* line 252 (the directory of the first artifact; the paths of the model   *)
(* have one directory), line 268 (the review folder of a group) and line   *)
(* 296 (the directory of the snapshot).  The exception leaves main.        *)
(***************************************************************************)
\* line 252 throws for the first image of the walk
ProcessFileNoDir ==
  /\ pc = "walk"
  /\ manifest.items = <<>>
  /\ \E file \in Catalogue :
       /\ Yields(file)
       /\ isImageExt(file)
       /\ Yielded(file)
  /\ pc' = "failed"
  /\ exitCode' = Some(1)
  /\ UNCHANGED <<clock, run, manifest, duplicatesIndex, processedDir, reviewDir, readmeFile,
                 manifestFile, historyFile, versionsDir, probe>>

\* line 268 throws for group j, after the groups before it have been copied
FinalizeNoDir ==
  /\ pc = "walk"
  /\ cursor = Len(corpus)
  /\ \E j \in 1..Len(duplicatesIndex.groups) :
       /\ Len(duplicatesIndex.groups[j].files) > 1
       /\ LET done == SubSeq(duplicatesIndex.groups, 1, j - 1)
          IN  /\ manifest' = [manifest EXCEPT !.duplicates = @ \o FinalizeGroups(done, 1)]
              /\ reviewDir' = ReviewCopies(done, sourceDir, reviewDir)
  /\ pc' = "failed"
  /\ exitCode' = Some(1)
  /\ UNCHANGED <<clock, run, corpus, fileLimit, inFlight, cursor, duplicatesIndex, sourceDir,
                 processedDir, readmeFile, manifestFile, historyFile, versionsDir, probe>>

\* line 296 throws, after manifest.json and history.json have been written
PersistNoDir ==
  /\ pc = "persist"
  /\ manifest.version \notin DOMAIN versionsDir
  /\ manifestFile' = Some(Stringify(manifest, FALSE))
  /\ LET history == ReadHistory(historyFile)
         entry == [version |-> manifest.version, manifest |-> "manifest.json",
                   items |-> Len(manifest.items), duplicates |-> Len(manifest.duplicates)]
     IN  historyFile' = IF history.array
                        THEN Some(Stringify(Append(history.value, entry), TRUE))
                        ELSE historyFile
  /\ pc' = "failed"
  /\ exitCode' = Some(1)
  /\ UNCHANGED <<clock, run, corpus, fileLimit, inFlight, cursor, manifest, duplicatesIndex,
                 sourceDir, processedDir, reviewDir, readmeFile, versionsDir, probe>>

NextNoDir == Next \/ ProcessFileNoDir \/ FinalizeNoDir \/ PersistNoDir

SpecNoDir == Init /\ [][NextNoDir]_vars

(***************************************************************************)
(* One run with processImage taken await by await.  A call of processImage *)
(* is in flight from its start until its promise settles; the steps it     *)
(* awaits, in order, are Stages(file).  The call throws at the step named  *)
(* by the file's fault and returns after the last step; what it leaves in  *)
(* the manifest, the index and data_dump/processed is processImage's       *)
(* result.  The loop of main awaits the call (line 254).                   *)
(***************************************************************************)
\* lines 129, 133, 115, then 154, 155, 157 (passthrough) or 182, 183, 186
Stages(file) ==
  <<"read", "decode", "stat">>
    \o (IF decideFormat(file.ext, file.hasAlpha, Some(file.size)) = "gif"
        THEN <<"copy", "reread", "hash">>
        ELSE <<"encode", "write", "hash">>)

InitSteps == InitWith(MaxStepFiles)

\* the loop calling processImage without awaiting it
BeginFileNoAwait ==
  /\ pc = "walk"
  /\ \E file \in Catalogue :
       /\ Yields(file)
       /\ isImageExt(file)
       /\ corpus' = IF cursor < Len(corpus) THEN corpus ELSE Append(corpus, file)
       /\ sourceDir' = IF cursor < Len(corpus) THEN sourceDir
                       ELSE Put(sourceDir, PathOf(file), ReadOriginal(file))
       /\ cursor' = cursor + 1
       /\ inFlight' = inFlight \cup {[file |-> file, step |-> 1]}
  /\ UNCHANGED <<pc, clock, run, fileLimit, manifest, duplicatesIndex, processedDir, reviewDir,
                 readmeFile, manifestFile, historyFile, versionsDir, exitCode, probe>>

\* lines 249-254: the loop takes the next image and calls processImage
BeginFile ==
  /\ pc = "walk"
  /\ inFlight = {}
  /\ \E file \in Catalogue :
       /\ Yields(file)
       /\ isImageExt(file)
       /\ corpus' = IF cursor < Len(corpus) THEN corpus ELSE Append(corpus, file)
       /\ sourceDir' = IF cursor < Len(corpus) THEN sourceDir
                       ELSE Put(sourceDir, PathOf(file), ReadOriginal(file))
       /\ cursor' = cursor + 1
       /\ inFlight' = inFlight \cup {[file |-> file, step |-> 1]}
  /\ UNCHANGED <<pc, clock, run, fileLimit, manifest, duplicatesIndex, processedDir, reviewDir,
                 readmeFile, manifestFile, historyFile, versionsDir, exitCode, probe>>

\* the call throws at, or returns after, the step it awaits
Settles(x) == Stages(x.file)[x.step] = x.file.fault \/ x.step = Len(Stages(x.file))

\* an awaited step of a call in flight completes and the call awaits the next
AdvanceFile ==
  /\ \E x \in inFlight :
       /\ ~Settles(x)
       /\ inFlight' = (inFlight \ {x}) \cup {[x EXCEPT !.step = @ + 1]}
  /\ UNCHANGED <<pc, clock, run, corpus, fileLimit, cursor, manifest, duplicatesIndex,
                 sourceDir, processedDir, reviewDir, readmeFile, manifestFile, historyFile,
                 versionsDir, exitCode, probe>>

\* lines 254-260: the call settles; its record, or the error record of the
\* catch, is in the manifest
SettleFile ==
  /\ \E x \in inFlight :
       /\ Settles(x)
       /\ inFlight' = inFlight \ {x}
       /\ LET r == processImage(x.file, clock, manifest, duplicatesIndex, processedDir)
          IN  /\ manifest' =
                   IF r.threw
                   THEN [r.manifest EXCEPT !.items =
                           Append(@, [original |-> PathOf(x.file), error |-> r.error])]
                   ELSE r.manifest
              /\ duplicatesIndex' = r.index
              /\ processedDir' = r.processed
  /\ UNCHANGED <<pc, clock, run, corpus, fileLimit, cursor, sourceDir, reviewDir, readmeFile,
                 manifestFile, historyFile, versionsDir, exitCode, probe>>

NextSteps == Setup \/ SkipFile \/ BeginFile \/ AdvanceFile \/ SettleFile \/ Finalize \/ Persist

SpecSteps == InitSteps /\ [][NextSteps]_vars

(***************************************************************************)
(* One run over a history.json that can also hold valid JSON that is not   *)
(* an array: JSON.parse succeeds (line 288), so history is that value and   *)
(* history.push (line 291) throws a TypeError.                             *)
(***************************************************************************)
\* the parsed value is held as <<[json |-> its type]>>
OtherJson ==
  { Some(Stringify(<<[json |-> "null"]>>, FALSE)),
    Some(Stringify(<<[json |-> "object"]>>, FALSE)),
    Some(Stringify(<<[json |-> "number"]>>, FALSE)) }

InitAnyHistory ==
  /\ pc = "start"
  /\ clock = 0
  /\ run = 1
  /\ corpus = <<>>
  /\ fileLimit = MaxHistoryFiles
  /\ cursor = 0
  /\ inFlight = {}
  /\ manifest = NoManifest
  /\ duplicatesIndex = NoIndex
  /\ sourceDir = EmptyDir
  /\ processedDir = EmptyDir
  /\ reviewDir = EmptyDir
  /\ readmeFile = null
  /\ manifestFile = null
  /\ historyFile \in PriorHistories \cup OtherJson
  /\ versionsDir = EmptyDir
  /\ exitCode = null
  /\ probe = null

SpecAnyHistory == InitAnyHistory /\ [][Next]_vars

(***************************************************************************)
(* decideFormat on its own: every extension, alpha flag and stat result of *)
(* FormatInputs.                                                           *)
(***************************************************************************)
FormatExts == {".jpg", ".jpeg", ".png", ".gif", ".webp", ".JPG", ".PNG", ".GIF", ".bmp"}

FormatStats ==
  {null, Some(0), Some(10240), Some(SmallPngLimit - 1), Some(SmallPngLimit), Some(5242880)}

FormatInputs ==
  [ext : FormatExts, hasAlpha : BOOLEAN, stat : FormatStats, format : {null}]

InitFormat ==
  /\ pc = "probe"
  /\ clock = 0
  /\ run = 0
  /\ corpus = <<>>
  /\ fileLimit = 0
  /\ cursor = 0
  /\ inFlight = {}
  /\ manifest = NoManifest
  /\ duplicatesIndex = NoIndex
  /\ sourceDir = EmptyDir
  /\ processedDir = EmptyDir
  /\ reviewDir = EmptyDir
  /\ readmeFile = null
  /\ manifestFile = null
  /\ historyFile = null
  /\ versionsDir = EmptyDir
  /\ exitCode = null
  /\ probe \in FormatInputs

DecideFormat ==
  /\ pc = "probe"
  /\ probe.format = null
  /\ probe' = [probe EXCEPT !.format = Some(decideFormat(probe.ext, probe.hasAlpha, probe.stat))]
  /\ UNCHANGED <<pc, clock, run, corpus, fileLimit, inFlight, cursor, manifest, duplicatesIndex,
                 sourceDir, processedDir, reviewDir, readmeFile, manifestFile, historyFile,
                 versionsDir, exitCode>>

NextFormat == DecideFormat

SpecFormat == InitFormat /\ [][NextFormat]_vars

(***************************************************************************)
(* aHash on its own: the 8x8 grids of HashInputs, and a sampling that      *)
(* fails.                                                                  *)
(***************************************************************************)
HashShapes ==
  { {}, Pixels, 1..32, 4..32, 33..40, {1}, {hashSize * hashSize}, 2..(hashSize * hashSize),
    {i \in Pixels : i % 4 = 1}, {i \in Pixels : i % 4 = 0}, {i \in Pixels : i % 2 = 1},
    {i \in Pixels : (i - 1) \div hashSize < 3}, {i \in Pixels : i % hashSize \in {2, 3, 5}} }

HashLevels == {0, 1, 127, 128, 255}

\* two-level grids, and a ramp in which every sample differs
HashGrids ==
  {[i \in Pixels |-> IF i \in S THEN hi ELSE lo] : S \in HashShapes, hi \in HashLevels, lo \in HashLevels}
    \cup {[i \in Pixels |-> 4 * i - 1], [i \in Pixels |-> 256 - 4 * i], [i \in Pixels |-> (37 * i) % 256]}

HashInputs == [sampled : {null} \cup {Some(g) : g \in HashGrids}, hash : {null}]

InitHash ==
  /\ pc = "hash"
  /\ clock = 0
  /\ run = 0
  /\ corpus = <<>>
  /\ fileLimit = 0
  /\ cursor = 0
  /\ inFlight = {}
  /\ manifest = NoManifest
  /\ duplicatesIndex = NoIndex
  /\ sourceDir = EmptyDir
  /\ processedDir = EmptyDir
  /\ reviewDir = EmptyDir
  /\ readmeFile = null
  /\ manifestFile = null
  /\ historyFile = null
  /\ versionsDir = EmptyDir
  /\ exitCode = null
  /\ probe \in HashInputs

AHash ==
  /\ pc = "hash"
  /\ probe.hash = null
  /\ probe' = [probe EXCEPT !.hash = Some(aHash(probe.sampled))]
  /\ UNCHANGED <<pc, clock, run, corpus, fileLimit, inFlight, cursor, manifest, duplicatesIndex,
                 sourceDir, processedDir, reviewDir, readmeFile, manifestFile, historyFile,
                 versionsDir, exitCode>>

NextHash == AHash

SpecHash == InitHash /\ [][NextHash]_vars

(***************************************************************************)
(* hammingDistanceHex on its own: every pair of the strings of HexStrings  *)
(* (all of one digit, some of two, the fingerprints of the samples, the    *)
(* empty string and null), in both argument orders.                        *)
(***************************************************************************)
PairDigits == {"0", "1", "2", "7", "8", "a", "f"}

HexStrings ==
  {Some(<<d>>) : d \in {HexDigits[k] : k \in 1..16}}
    \cup {Some(<<d, e>>) : d \in PairDigits, e \in PairDigits}
    \cup {Fingerprint[n] : n \in SampleNames}
    \cup {Some(<<>>)}

HammingInputs == [a : HexStrings, b : HexStrings, dist : {null}, back : {null}]

InitHamming ==
  /\ pc = "hamming"
  /\ clock = 0
  /\ run = 0
  /\ corpus = <<>>
  /\ fileLimit = 0
  /\ cursor = 0
  /\ inFlight = {}
  /\ manifest = NoManifest
  /\ duplicatesIndex = NoIndex
  /\ sourceDir = EmptyDir
  /\ processedDir = EmptyDir
  /\ reviewDir = EmptyDir
  /\ readmeFile = null
  /\ manifestFile = null
  /\ historyFile = null
  /\ versionsDir = EmptyDir
  /\ exitCode = null
  /\ probe \in HammingInputs

\* the distance of the pair, and of the pair with its arguments exchanged
HammingDistanceHex ==
  /\ pc = "hamming"
  /\ probe.dist = null
  /\ probe' = [probe EXCEPT !.dist = Some(hammingDistanceHex(probe.a, probe.b)),
                            !.back = Some(hammingDistanceHex(probe.b, probe.a))]
  /\ UNCHANGED <<pc, clock, run, corpus, fileLimit, inFlight, cursor, manifest, duplicatesIndex,
                 sourceDir, processedDir, reviewDir, readmeFile, manifestFile, historyFile,
                 versionsDir, exitCode>>

NextHamming == HammingDistanceHex

SpecHamming == InitHamming /\ [][NextHamming]_vars

(***************************************************************************)
(* Properties                                                              *)
(***************************************************************************)
Decided == pc = "probe" /\ probe.format # null

\* C3: a non-GIF input without alpha whose size is known is classified png
\* exactly when its extension is .png and its size is below 256 KiB, and jpeg
\* otherwise (so a .png of 256 KiB or more is classified jpeg).
C3_PngSizeRule ==
  (Decided /\ toLowerCase(probe.ext) # ".gif" /\ ~probe.hasAlpha /\ probe.stat # null)
    => Get(probe.format) =
         IF toLowerCase(probe.ext) = ".png" /\ Get(probe.stat) < SmallPngLimit
         THEN "png" ELSE "jpeg"

\* C4: every .gif input is classified gif whatever its alpha flag and size; a
\* non-GIF input with an alpha channel is classified png whatever its
\* extension and size; an extension that is neither gif nor png, without
\* alpha, is classified jpeg.
C4_Precedence ==
  Decided =>
    LET e == toLowerCase(probe.ext)
        f == Get(probe.format)
    IN  /\ e = ".gif" => f = "gif"
        /\ (e # ".gif" /\ probe.hasAlpha) => f = "png"
        /\ (e \notin {".gif", ".png"} /\ ~probe.hasAlpha) => f = "jpeg"

\* a GIF with an alpha channel has been classified
C4_Witness ==
  Decided /\ probe.ext = ".gif" /\ probe.hasAlpha /\ probe.stat = Some(5242880)

(***************************************************************************)
(* Vocabulary of the properties of a run.                                  *)
(***************************************************************************)
IsError(record) == "error" \in DOMAIN record

LastItem(m) == m.items[Len(m.items)]

\* the loop of main takes one file: the file is corpus'[cursor']
FileStep == pc = "walk" /\ pc' = "walk" /\ cursor' = cursor + 1

\* ... and processImage returned for it, so registerDuplicate was called
Returned ==
  /\ FileStep
  /\ Len(manifest'.items) = Len(manifest.items) + 1
  /\ ~IsError(LastItem(manifest'))

Within(hash, group) == hammingDistanceHex(hash, group.hash) <= duplicateHammingThreshold

\* the files of all groups
Grouped(index) == UNION {{g.files[k] : k \in 1..Len(g.files)} : g \in {index.groups[i] : i \in 1..Len(index.groups)}}

\* the file with this path among the files c
FileIn(c, path) == CHOOSE f \in {c[i] : i \in 1..Len(c)} : PathOf(f) = path

FileAt(path) == FileIn(corpus, path)

\* C1: when the fingerprint of the file being assigned is present and within
\* the threshold of two existing groups, the path is appended to the one
\* created first and that group's id is returned, also when the later group is
\* strictly closer; the later group is left as it was.
C1_FirstMatch ==
  [][Returned =>
       LET file == corpus'[cursor']
           hash == Fingerprint[file.sample]
           groups == duplicatesIndex.groups
       IN  \A i, j \in 1..Len(groups) :
             ( /\ ~Falsy(hash)
               /\ i < j
               /\ Within(hash, groups[i])
               /\ Within(hash, groups[j])
               /\ \A k \in 1..(i - 1) : ~Within(hash, groups[k]) )
             => /\ Len(duplicatesIndex'.groups) = Len(groups)
                /\ duplicatesIndex'.groups[i] =
                     [groups[i] EXCEPT !.files = Append(@, PathOf(file))]
                /\ duplicatesIndex'.groups[j] = groups[j]
                /\ LastItem(manifest').duplicateGroup = Some(groups[i].id)]_vars

\* the last file joined the first group although the second is strictly closer
C1_Witness ==
  /\ pc = "walk"
  /\ cursor >= 3
  /\ Len(duplicatesIndex.groups) >= 2
  /\ LET file == corpus[cursor]
         hash == Fingerprint[file.sample]
         g1 == duplicatesIndex.groups[1]
         g2 == duplicatesIndex.groups[2]
     IN  /\ g1.files[Len(g1.files)] = PathOf(file)
         /\ Len(g1.files) >= 2
         /\ hammingDistanceHex(hash, g2.hash) < hammingDistanceHex(hash, g1.hash)
         /\ Within(hash, g1)
         /\ LastItem(manifest).duplicateGroup = Some("dup-1")

\* C2: a fingerprint at distance exactly duplicateHammingThreshold from the
\* representative of the first group within the threshold joins that group; a
\* fingerprint at distance duplicateHammingThreshold + 1 or more from every
\* representative joins no group and a new group is created for it.
C2_Boundary ==
  [][Returned =>
       LET file == corpus'[cursor']
           hash == Fingerprint[file.sample]
           groups == duplicatesIndex.groups
       IN  ~Falsy(hash) =>
             /\ \A i \in 1..Len(groups) :
                  ( /\ hammingDistanceHex(hash, groups[i].hash) = duplicateHammingThreshold
                    /\ \A k \in 1..(i - 1) : ~Within(hash, groups[k]) )
                  => /\ Len(duplicatesIndex'.groups) = Len(groups)
                     /\ duplicatesIndex'.groups[i].files = Append(groups[i].files, PathOf(file))
             /\ (\A i \in 1..Len(groups) :
                   hammingDistanceHex(hash, groups[i].hash) >= duplicateHammingThreshold + 1)
                => /\ Len(duplicatesIndex'.groups) = Len(groups) + 1
                   /\ \A i \in 1..Len(groups) : duplicatesIndex'.groups[i] = groups[i]
                   /\ duplicatesIndex'.groups[Len(groups) + 1].files = <<PathOf(file)>>]_vars

\* a file at distance exactly 5 joined the first group, and a file at distance
\* exactly 6 from that group's representative opened the second
C2_Witness ==
  /\ Len(duplicatesIndex.groups) = 2
  /\ LET g1 == duplicatesIndex.groups[1]
         g2 == duplicatesIndex.groups[2]
     IN  /\ Len(g1.files) = 2
         /\ hammingDistanceHex(Fingerprint[FileAt(g1.files[2]).sample], g1.hash)
              = duplicateHammingThreshold
         /\ hammingDistanceHex(g2.hash, g1.hash) = duplicateHammingThreshold + 1

\* C5: a file whose read, decode, encode, write or copy fails gets an error
\* record with its path and the failure's message, and the loop goes on; from
\* the loop the run reaches completion with every file of the corpus walked
\* and manifest.json, history.json and the snapshot written.
C5_FailureIsolated ==
  /\ [][(FileStep /\ isImageExt(corpus'[cursor'])
           /\ corpus'[cursor'].fault \in {"read", "decode", "encode", "write", "copy"})
        => /\ manifest'.items =
                Append(manifest.items, [original |-> PathOf(corpus'[cursor']),
                                        error |-> corpus'[cursor'].fault \o " failed"])
           /\ duplicatesIndex' = duplicatesIndex]_vars
  /\ (pc = "walk") ~>
       ( /\ pc = "done"
         /\ cursor = Len(corpus)
         /\ manifestFile = Some(Stringify(manifest, FALSE))
         /\ manifest.version \in DOMAIN versionsDir
         /\ historyFile # null /\ Get(historyFile).kind = "json" )

\* a run is complete whose first file failed and whose second file succeeded
C5_Witness ==
  /\ pc = "done"
  /\ Len(manifest.items) >= 2
  /\ IsError(manifest.items[1])
  /\ ~IsError(manifest.items[2])

\* C6: the original path of an error record is a member of no duplicate group.
C6_ErrorsNotClustered ==
  \A k \in 1..Len(manifest.items) :
    IsError(manifest.items[k]) => manifest.items[k].original \notin Grouped(duplicatesIndex)

\* a file has failed at the write of its artifact while another file is grouped
C6_Witness ==
  /\ \E k \in 1..Len(manifest.items) :
       /\ IsError(manifest.items[k])
       /\ FileAt(manifest.items[k].original).fault = "write"
  /\ Grouped(duplicatesIndex) # {}

\* C7: for a file that passes every step but whose processed image cannot be
\* sampled, registerDuplicate returns no id and leaves the index as it was,
\* and the file gets a success record whose duplicateGroup is null.
C7_AbsentFingerprint ==
  [][(FileStep /\ isImageExt(corpus'[cursor']) /\ corpus'[cursor'].fault = "none"
        /\ SampleData(corpus'[cursor'].sample) = null)
     => /\ duplicatesIndex' = duplicatesIndex
        /\ Len(manifest'.items) = Len(manifest.items) + 1
        /\ ~IsError(LastItem(manifest'))
        /\ LastItem(manifest').original = PathOf(corpus'[cursor'])
        /\ LastItem(manifest').duplicateGroup = null]_vars

\* a file without fingerprint has its success record while a group exists
C7_Witness ==
  /\ pc = "walk"
  /\ cursor >= 2
  /\ SampleData(corpus[cursor].sample) = null
  /\ corpus[cursor].fault = "none"
  /\ isImageExt(corpus[cursor])
  /\ ~IsError(LastItem(manifest))
  /\ LastItem(manifest).duplicateGroup = null
  /\ Len(duplicatesIndex.groups) >= 1

\* the groups of two or more members, in creation order, as {id, files}
PublicGroups(index) ==
  LET listed == SelectSeq(index.groups, LAMBDA g : Len(g.files) >= 2)
  IN  [k \in 1..Len(listed) |-> [id |-> listed[k].id, files |-> listed[k].files]]

\* C8: at the end of a run manifest.duplicates holds exactly the groups of the
\* index with two or more members, in creation order, each with its id and
\* its member list; no group of one member is listed.
C8_PublicDuplicates ==
  pc \in {"persist", "done"} =>
    /\ manifest.duplicates = PublicGroups(duplicatesIndex)
    /\ \A k \in 1..Len(manifest.duplicates) : Len(manifest.duplicates[k].files) >= 2

\* two files 3 bits apart and one 40 bits away: one listed group of two files
C8_Witness ==
  /\ pc = "done"
  /\ Len(corpus) = 3
  /\ Len(duplicatesIndex.groups) = 2
  /\ Len(manifest.duplicates) = 1
  /\ Len(manifest.duplicates[1].files) = 2
  /\ LET first == FileAt(manifest.duplicates[1].files[1])
         second == FileAt(manifest.duplicates[1].files[2])
         other == CHOOSE f \in {corpus[i] : i \in 1..3} : f \notin {first, second}
     IN  /\ hammingDistanceHex(Fingerprint[first.sample], Fingerprint[second.sample]) = 3
         /\ hammingDistanceHex(Fingerprint[first.sample], Fingerprint[other.sample]) = 40

\* the ids of the groups are dup-1, dup-2, ... in creation order
GroupIds(index) == \A k \in 1..Len(index.groups) : index.groups[k].id = "dup-" \o String(k)

\* C9: the k-th group has id dup-k; a step that adds a group adds one group,
\* only when the fingerprint matches no existing group, as a singleton
\* holding the assigned path, and the new id dup-{count+1} is returned.
C9_GroupIds ==
  /\ GroupIds(duplicatesIndex)
  /\ [][/\ GroupIds(duplicatesIndex')
        /\ Len(duplicatesIndex'.groups) > Len(duplicatesIndex.groups) =>
             LET groups == duplicatesIndex.groups
                 new == duplicatesIndex'.groups[Len(groups) + 1]
             IN  /\ Returned
                 /\ Len(duplicatesIndex'.groups) = Len(groups) + 1
                 /\ \A i \in 1..Len(groups) :
                      ~Within(Fingerprint[corpus'[cursor'].sample], groups[i])
                 /\ new.files = <<PathOf(corpus'[cursor'])>>
                 /\ new.id = "dup-" \o String(Len(groups) + 1)
                 /\ LastItem(manifest').duplicateGroup = Some(new.id)]_vars

\* the last file opened the second group and its record carries dup-2
C9_Witness ==
  /\ pc = "walk"
  /\ Len(duplicatesIndex.groups) = 2
  /\ duplicatesIndex.groups[2].id = "dup-2"
  /\ duplicatesIndex.groups[2].files = <<PathOf(corpus[cursor])>>
  /\ LastItem(manifest).duplicateGroup = Some("dup-2")

\* each representative is the fingerprint of the group's first member
Representatives(index, c) ==
  \A k \in 1..Len(index.groups) :
    index.groups[k].hash = Fingerprint[FileIn(c, index.groups[k].files[1]).sample]

\* C10: the representative of a group is the fingerprint of its first member,
\* and no step of a run changes the representative of a group, whatever
\* members are added to it or to other groups.
C10_FixedRepresentative ==
  /\ Representatives(duplicatesIndex, corpus)
  /\ [][/\ Representatives(duplicatesIndex', corpus')
        /\ \A k \in 1..Len(duplicatesIndex.groups) :
             k <= Len(duplicatesIndex'.groups) =>
               duplicatesIndex'.groups[k].hash = duplicatesIndex.groups[k].hash]_vars

\* a group holds a later member whose fingerprint is not the representative
C10_Witness ==
  \E k \in 1..Len(duplicatesIndex.groups) :
    LET g == duplicatesIndex.groups[k]
    IN  /\ Len(g.files) >= 2
        /\ Fingerprint[FileAt(g.files[2]).sample] # g.hash

IsPrefix(s, t) == Len(s) <= Len(t) /\ \A k \in 1..Len(s) : t[k] = s[k]

\* the places <<group, position>> at which path p is a member
Memberships(index, p) ==
  {<<i, k>> \in (1..Len(index.groups)) \X (1..MaxFiles + 1) :
     k <= Len(index.groups[i].files) /\ index.groups[i].files[k] = p}

\* every member path is a member of one group, at one position
MemberOnce(index) == \A p \in Grouped(index) : Cardinality(Memberships(index, p)) = 1

\* C11: across every step of a run no group is deleted, the member list of
\* each group keeps its members at their positions and grows only by appending
\* at its end, and a path that is a member is a member of one group, once.
C11_MonotoneMembership ==
  /\ MemberOnce(duplicatesIndex)
  /\ [][/\ MemberOnce(duplicatesIndex')
        /\ Len(duplicatesIndex'.groups) >= Len(duplicatesIndex.groups)
        /\ \A i \in 1..Len(duplicatesIndex.groups) :
             /\ IsPrefix(duplicatesIndex.groups[i].files, duplicatesIndex'.groups[i].files)
             /\ duplicatesIndex'.groups[i].id = duplicatesIndex.groups[i].id]_vars

\* the first group received the third file after the second group was created
\* for the second file
C11_Witness ==
  /\ cursor = 3
  /\ Len(duplicatesIndex.groups) = 2
  /\ duplicatesIndex.groups[1].files = <<PathOf(corpus[1]), PathOf(corpus[3])>>
  /\ duplicatesIndex.groups[2].files = <<PathOf(corpus[2])>>

\* processImage returns for this file, so registerDuplicate is called for it
Registered(file) == isImageExt(file) /\ file.fault = "none"

\* the index that registerDuplicate builds from the empty index over the
\* (path, fingerprint) pairs of the first n files of c, in their order
RECURSIVE Clustering(_, _)
Clustering(c, n) ==
  IF n = 0 THEN NoIndex
  ELSE IF Registered(c[n])
       THEN registerDuplicate(Fingerprint[c[n].sample], PathOf(c[n]), Clustering(c, n - 1)).index
       ELSE Clustering(c, n - 1)

\* the id registerDuplicate returns for the n-th file of c in that sequence
AssignedId(c, n) ==
  registerDuplicate(Fingerprint[c[n].sample], PathOf(c[n]), Clustering(c, n - 1)).id

IndexOf(c, path) == CHOOSE i \in 1..Len(c) : PathOf(c[i]) = path

\* what the records say of the clustering: each path with its group id
GroupColumn(items) ==
  [k \in 1..Len(items) |->
     IF IsError(items[k]) THEN <<items[k].original>>
     ELSE <<items[k].original, items[k].duplicateGroup>>]

\* C12: in every run the index (ids, representatives, ordered member lists) is
\* the one the sequence of (path, fingerprint) pairs determines from the empty
\* index, and each record carries the id that sequence determines; so a run
\* over the same files in the same order repeats the ids and the listed
\* groups that the manifest.json of the run before holds.
C12_Determinism ==
  /\ duplicatesIndex = Clustering(corpus, cursor)
  /\ \A k \in 1..Len(manifest.items) :
       ~IsError(manifest.items[k]) =>
         manifest.items[k].duplicateGroup =
           AssignedId(corpus, IndexOf(corpus, manifest.items[k].original))
  /\ (run >= 2 /\ pc = "persist" /\ manifestFile # null) =>
       /\ GroupColumn(manifest.items) = GroupColumn(Get(manifestFile).value.items)
       /\ manifest.duplicates = Get(manifestFile).value.duplicates

\* the second run has clustered the two files as the first run did, into one
\* group, and the manifest.json of the first run is still on disk
C12_Witness ==
  /\ run = 2
  /\ pc = "persist"
  /\ manifestFile # null
  /\ Len(Get(manifestFile).value.duplicates) = 1
  /\ Len(manifest.duplicates) = 1
  /\ Len(duplicatesIndex.groups) = 1

\* the files the loop has taken so far that pass the extension filter
Eligible(c, n) == SelectSeq(SubSeq(c, 1, n), isImageExt)

\* C13: manifest.items holds one record, success or error, for each eligible
\* file the loop has taken, in the order the loop took them; after the loop
\* that is every eligible file of the corpus.
C13_OneRecordPerFile ==
  LET files == Eligible(corpus, cursor)
  IN  /\ Len(manifest.items) = Len(files)
      /\ \A k \in 1..Len(files) : manifest.items[k].original = PathOf(files[k])
      /\ pc \in {"persist", "done"} => cursor = Len(corpus)

\* a finished run over a file that is no image, a file that failed and a file
\* that succeeded: two records, in processing order
C13_Witness ==
  /\ pc = "done"
  /\ Len(corpus) = 3
  /\ ~isImageExt(corpus[1])
  /\ corpus[2].fault # "none"
  /\ Registered(corpus[3])
  /\ Len(manifest.items) = 2
  /\ IsError(manifest.items[1])
  /\ ~IsError(manifest.items[2])

Hashed == pc = "hash" /\ probe.hash # null /\ Get(probe.hash) # null

\* the four bits a hex digit stands for, most significant first
BitsOfHex(d) ==
  CASE d = "0" -> <<0, 0, 0, 0>> [] d = "1" -> <<0, 0, 0, 1>>
    [] d = "2" -> <<0, 0, 1, 0>> [] d = "3" -> <<0, 0, 1, 1>>
    [] d = "4" -> <<0, 1, 0, 0>> [] d = "5" -> <<0, 1, 0, 1>>
    [] d = "6" -> <<0, 1, 1, 0>> [] d = "7" -> <<0, 1, 1, 1>>
    [] d = "8" -> <<1, 0, 0, 0>> [] d = "9" -> <<1, 0, 0, 1>>
    [] d = "a" -> <<1, 0, 1, 0>> [] d = "b" -> <<1, 0, 1, 1>>
    [] d = "c" -> <<1, 1, 0, 0>> [] d = "d" -> <<1, 1, 0, 1>>
    [] d = "e" -> <<1, 1, 1, 0>> [] d = "f" -> <<1, 1, 1, 1>>

LowerHex == {"0", "1", "2", "3", "4", "5", "6", "7", "8", "9", "a", "b", "c", "d", "e", "f"}

\* the total of the samples, counted as unit weights
Total(data) == Cardinality({<<i, c>> \in (DOMAIN data) \X (1..255) : c <= data[i]})

\* C15: for an 8x8 grid of intensities in 0..255, bit i (row-major) of the
\* fingerprint is 1 iff sample i is at least the arithmetic mean of the 64
\* samples; the bits are packed four at a time, most significant first, into
\* lower-case hex digits; a grid of equal samples yields the all-ones
\* fingerprint.
C15_AHash ==
  Hashed =>
    LET data == Get(probe.sampled)
        hex == Get(Get(probe.hash))
        total == Total(data)
    IN  /\ Len(hex) = Len(data) \div 4
        /\ \A k \in 1..Len(hex) :
             /\ hex[k] \in LowerHex
             /\ \A j \in 1..4 :
                  BitsOfHex(hex[k])[j] =
                    IF data[4 * (k - 1) + j] * Len(data) >= total THEN 1 ELSE 0
        /\ (\A i, j \in DOMAIN data : data[i] = data[j]) => \A k \in 1..Len(hex) : hex[k] = "f"

\* the grid bright at the first of every four samples has the fingerprint 88...8
C15_Witness ==
  /\ Hashed
  /\ Get(probe.sampled) = [i \in Pixels |-> IF i % 4 = 1 THEN 255 ELSE 0]
  /\ \A k \in 1..Len(Get(Get(probe.hash))) : Get(Get(probe.hash))[k] = "8"

\* the distance of two fingerprints of equal length has been computed
Measured ==
  /\ pc = "hamming"
  /\ probe.dist # null
  /\ probe.a # null /\ probe.b # null
  /\ Len(Get(probe.a)) = Len(Get(probe.b))
  /\ Len(Get(probe.a)) > 0

\* the bit positions <<digit, bit>> in which x and y differ
DifferingBits(x, y) ==
  {<<i, j>> \in (1..Len(x)) \X (1..4) : BitsOfHex(x[i])[j] # BitsOfHex(y[i])[j]}

\* C16: for hex fingerprints a and b of equal length, hammingDistanceHex(a, b)
\* is the number of bit positions in which a and b differ, equals
\* hammingDistanceHex(b, a), is 0 when a = b, and lies in 0..4 * len(a).
C16_Hamming ==
  Measured =>
    LET a == Get(probe.a)
        b == Get(probe.b)
        dist == Get(probe.dist)
    IN  /\ dist = Cardinality(DifferingBits(a, b))
        /\ dist = Get(probe.back)
        /\ a = b => dist = 0
        /\ dist \in 0..(4 * Len(a))

\* two fingerprints of two digits that differ in every bit: distance 8
C16_Witness ==
  /\ Measured
  /\ probe.a = Some(<<"0", "f">>)
  /\ probe.b = Some(<<"f", "0">>)
  /\ Get(probe.dist) = 8

\* the step that completes a run
Completes == pc = "persist" /\ pc' = "done"

\* the sequence history.json holds, empty when it is absent or unparsable
HistoryOf(file) ==
  IF file = null \/ Get(file).kind # "json" THEN <<>> ELSE Get(file).value

\* C17: the step that completes a run leaves in history.json the sequence it
\* held before (empty when absent or unparsable) followed by one entry with
\* the version of the run's manifest, the number of its records and the number
\* of its listed groups; no other step of a run touches history.json.
C17_HistoryAppendOnly ==
  [][/\ Completes =>
          /\ historyFile' # null
          /\ Get(historyFile').kind = "json"
          /\ Get(historyFile').value =
                HistoryOf(historyFile)
                  \o <<[version |-> manifest.version, manifest |-> "manifest.json",
                        items |-> Len(Eligible(corpus, Len(corpus))),
                        duplicates |-> Len(PublicGroups(duplicatesIndex))]>>
     /\ ~Completes => historyFile' = historyFile]_vars

\* the second run has completed on a history that held one older entry: three
\* entries, the older one first, the newest counting two records and one
\* listed group
C17_Witness ==
  /\ run = 2
  /\ pc = "done"
  /\ Len(HistoryOf(historyFile)) = 3
  /\ HistoryOf(historyFile)[1].version = "t-1"
  /\ HistoryOf(historyFile)[3].items = 2
  /\ HistoryOf(historyFile)[3].duplicates = 1

\* the newest entry of history.json
LastEntry == HistoryOf(historyFile)[Len(HistoryOf(historyFile))]

\* C18: when a run has completed, versions/<version>/manifest.json, for the
\* version of the run's manifest and of its history entry, holds the content
\* of the manifest.json the run wrote, which is the manifest as the run left
\* it: version, config, items and duplicates.
C18_SnapshotEqualsManifest ==
  pc = "done" =>
    /\ manifestFile = Some(Stringify(manifest, FALSE))
    /\ LastEntry.version = manifest.version
    /\ manifest.version \in DOMAIN versionsDir
    /\ versionsDir[manifest.version] = Get(manifestFile)
    /\ versionsDir[manifest.version].value.items = manifest.items
    /\ versionsDir[manifest.version].value.duplicates = PublicGroups(duplicatesIndex)

\* a completed run whose snapshot lists a duplicate group of two files
C18_Witness ==
  /\ pc = "done"
  /\ manifest.version \in DOMAIN versionsDir
  /\ Len(versionsDir[manifest.version].value.duplicates) = 1
  /\ Len(versionsDir[manifest.version].value.items) = 2

\* the step that starts the loop of a run
Starts == pc = "start" /\ pc' = "walk"

\* C19: the version tag of a run is the second in which the run started and
\* nothing else, so a run started in the second of an earlier run gets that
\* run's tag; completing a run whose tag is taken already appends a history
\* entry with the same version, puts the run's manifest in the place of the
\* snapshot under versions/<version>/ and exits 0 like any other run.
C19_VersionCollision ==
  [][/\ Starts => manifest'.version = nowTimestamp(clock)
     /\ Completes =>
          /\ LastEntry'.version = manifest.version
          /\ Len(HistoryOf(historyFile')) = Len(HistoryOf(historyFile)) + 1
          /\ DOMAIN versionsDir' = DOMAIN versionsDir \cup {manifest.version}
          /\ versionsDir'[manifest.version] = Stringify(manifest, FALSE)
          /\ \A v \in DOMAIN versionsDir : v # manifest.version => versionsDir'[v] = versionsDir[v]
          /\ exitCode' = Some(0)]_vars

\* two runs have completed within one second: the two newest history entries
\* have one version and versions/ holds one snapshot
C19_Witness ==
  /\ run = 2
  /\ pc = "done"
  /\ clock = 0
  /\ Len(HistoryOf(historyFile)) >= 2
  /\ HistoryOf(historyFile)[Len(HistoryOf(historyFile)) - 1].version = LastEntry.version
  /\ DOMAIN versionsDir = {LastEntry.version}

\* the directory holds the files c, each with its original bytes, and no other
Untouched(dir, c) ==
  /\ DOMAIN dir = {PathOf(c[i]) : i \in 1..Len(c)}
  /\ \A i \in 1..Len(c) : dir[PathOf(c[i])] = ReadOriginal(c[i])

\* C20: every file the walk has found under images/ is there with the bytes it
\* had when it was found, and images/ holds nothing else: no step of a run
\* (processing, passthrough copy, extension rewriting, review copy, the
\* writing of manifest, history, snapshot and readme) writes, renames or
\* deletes a source file, also when processing of some files fails.
C20_OriginalsReadOnly ==
  /\ Untouched(sourceDir, corpus)
  /\ [][/\ Untouched(sourceDir', corpus')
        /\ \A p \in DOMAIN sourceDir :
             p \in DOMAIN sourceDir' /\ sourceDir'[p] = sourceDir[p]]_vars

\* a run has completed in which one file failed and two were processed,
\* re-encoded under a rewritten extension and copied to the review folder
C20_Witness ==
  /\ pc = "done"
  /\ readmeFile # null
  /\ \E k \in 1..Len(manifest.items) : IsError(manifest.items[k])
  /\ \E k \in 1..Len(manifest.items) :
       /\ ~IsError(manifest.items[k])
       /\ manifest.items[k].processed # manifest.items[k].original
  /\ Cardinality(DOMAIN reviewDir) = 2
  /\ Cardinality(DOMAIN processedDir) = 2

\* C21: a run ends with exit status 0 once its output directories could be
\* created, whatever number of files failed; a run ends with a non-zero
\* status only for a directory that could not be created, and then no file
\* has been processed and no manifest written.
C21_ExitStatus ==
  /\ pc = "done" => exitCode = Some(0)
  /\ pc = "failed" =>
       /\ exitCode = Some(1)
       /\ manifest.items = <<>>
       /\ processedDir = EmptyDir
       /\ manifestFile = null

\* the record of manifest.items for this path
RecordOf(items, path) == items[CHOOSE k \in 1..Len(items) : items[k].original = path]

\* C22: every .gif file the loop has taken whose bytes could be read and
\* copied, decodable or not, has a success record with format gif, operations
\* [copy], resized false whatever its dimensions, processedSize equal to
\* originalSize and processedChecksum equal to originalChecksum, and its
\* artifact holds the bytes of the original.
C22_GifPassthrough ==
  \A i \in 1..cursor :
    (toLowerCase(corpus[i].ext) = ".gif" /\ corpus[i].fault \notin {"read", "copy"}) =>
      LET record == RecordOf(manifest.items, PathOf(corpus[i]))
      IN  /\ ~IsError(record)
          /\ record.format = "gif"
          /\ record.operations = <<"copy">>
          /\ record.resized = FALSE
          /\ record.processedSize = record.originalSize
          /\ record.processedChecksum = record.originalChecksum
          /\ processedDir[record.processed] = ReadOriginal(corpus[i])

\* the success records that are no passthrough, as indices of manifest.items
Encoded == {k \in 1..Len(manifest.items) :
              ~IsError(manifest.items[k]) /\ manifest.items[k].format # "gif"}

\* a dimension of the file of this record exceeds the configured bounds
Exceeds(record) ==
  FileAt(record.original).width > maxWidth \/ FileAt(record.original).height > maxHeight

\* ... and both dimensions are known (meta.width and meta.height are truthy)
ExceedsKnown(record) ==
  /\ FileAt(record.original).width # 0
  /\ FileAt(record.original).height # 0
  /\ Exceeds(record)

\* C23 as stated: the operations of a non-GIF success record are
\* [resize, convert:<format>, compress] when a dimension exceeded the bounds
\* and [convert:<format>, compress] otherwise, and resized says which.
C23_OperationsAsStated ==
  \A k \in Encoded :
    LET record == manifest.items[k]
    IN  /\ record.operations =
             IF Exceeds(record) THEN <<"resize", "convert:" \o record.format, "compress">>
             ELSE <<"convert:" \o record.format, "compress">>
        /\ record.resized = Exceeds(record)

\* C23 (amended): the operations of a non-GIF success record are three tags,
\* [resize, convert:<format>, compress] when a dimension exceeded the bounds
\* (both being known) and [none, convert:<format>, compress] otherwise, with
\* <format> the record's format, jpeg or png; resize is present iff resized is
\* true, and resized is true iff a known dimension exceeded the bounds.
C23_Operations ==
  \A k \in Encoded :
    LET record == manifest.items[k]
    IN  /\ record.operations =
             <<IF ExceedsKnown(record) THEN "resize" ELSE "none",
               "convert:" \o record.format, "compress">>
        /\ record.resized = ExceedsKnown(record)
        /\ record.format \in {"jpeg", "png"}
        /\ record.format = decideFormat(FileAt(record.original).ext,
                                        FileAt(record.original).hasAlpha,
                                        Some(FileAt(record.original).size))

\* one manifest holds a record tagged resize and a record tagged none
C23_Witness ==
  /\ \E k \in Encoded : manifest.items[k].operations[1] = "resize" /\ manifest.items[k].resized
  /\ \E k \in Encoded : manifest.items[k].operations[1] = "none" /\ ~manifest.items[k].resized

\* C24: at most one call of processImage is in flight; the loop takes a file
\* only when no call is in flight and every file taken before has its record;
\* the index and the records change only in the step that settles the one
\* call in flight, which is the call for the file taken last.
C24_Sequential ==
  /\ Cardinality(inFlight) <= 1
  /\ [][/\ Cardinality(inFlight') <= 1
        /\ cursor' = cursor + 1 =>
             /\ inFlight = {}
             /\ Len(manifest.items) = Len(Eligible(corpus, cursor))
        /\ (duplicatesIndex' # duplicatesIndex \/ manifest'.items # manifest.items) =>
             /\ inFlight = {[file |-> corpus[cursor], step |-> Len(Stages(corpus[cursor]))]}
                  \/ \E n \in 1..Len(Stages(corpus[cursor])) :
                       /\ inFlight = {[file |-> corpus[cursor], step |-> n]}
                       /\ Stages(corpus[cursor])[n] = corpus[cursor].fault
             /\ inFlight' = {}]_vars

\* the second file awaits its last step while the first file has its record
C24_Witness ==
  /\ cursor = 2
  /\ Len(manifest.items) = 1
  /\ manifest.items[1].original = PathOf(corpus[1])
  /\ inFlight = {[file |-> corpus[2], step |-> Len(Stages(corpus[2]))]}

\* the fingerprint registered for the member path p
MemberHash(p) == Fingerprint[FileAt(p).sample]

\* C25: every member of every group has a fingerprint within
\* duplicateHammingThreshold of the group's representative, the first member
\* at distance 0; two members of one group are at most twice the threshold
\* apart.
C25_MembersNearRepresentative ==
  \A k \in 1..Len(duplicatesIndex.groups) :
    LET g == duplicatesIndex.groups[k]
    IN  /\ hammingDistanceHex(MemberHash(g.files[1]), g.hash) = 0
        /\ \A i \in 1..Len(g.files) :
             hammingDistanceHex(MemberHash(g.files[i]), g.hash) <= duplicateHammingThreshold
        /\ \A i, j \in 1..Len(g.files) :
             hammingDistanceHex(MemberHash(g.files[i]), MemberHash(g.files[j]))
               <= 2 * duplicateHammingThreshold

\* two later members of one group are further apart than the threshold
C25_Witness ==
  \E k \in 1..Len(duplicatesIndex.groups) :
    LET g == duplicatesIndex.groups[k]
    IN  /\ Len(g.files) = 3
        /\ hammingDistanceHex(MemberHash(g.files[2]), MemberHash(g.files[3]))
             > duplicateHammingThreshold
        /\ hammingDistanceHex(MemberHash(g.files[2]), MemberHash(g.files[3])) < Infinity

\* C26: the representatives of two distinct groups are more than
\* duplicateHammingThreshold apart.
C26_RepresentativesFarApart ==
  \A i, j \in 1..Len(duplicatesIndex.groups) :
    i # j =>
      hammingDistanceHex(duplicatesIndex.groups[i].hash, duplicatesIndex.groups[j].hash)
        > duplicateHammingThreshold

\* two groups whose representatives are one bit beyond the threshold
C26_Witness ==
  \E i, j \in 1..Len(duplicatesIndex.groups) :
    /\ i < j
    /\ hammingDistanceHex(duplicatesIndex.groups[i].hash, duplicatesIndex.groups[j].hash)
         = duplicateHammingThreshold + 1
    /\ Len(duplicatesIndex.groups[i].files) >= 2

\* the partition of the grouped files that an index describes
Partition(index) ==
  {{index.groups[k].files[i] : i \in 1..Len(index.groups[k].files)} :
     k \in 1..Len(index.groups)}

\* the orders in which the files of c can be processed
Orders(c) ==
  {[i \in 1..Len(c) |-> c[p[i]]] :
     p \in {q \in [1..Len(c) -> 1..Len(c)] : \A i, j \in 1..Len(c) : q[i] = q[j] => i = j}}

Near(f, g) ==
  hammingDistanceHex(Fingerprint[f.sample], Fingerprint[g.sample]) <= duplicateHammingThreshold

\* three fingerprinted files, one of them within the threshold of both
\* others, which are further apart than the threshold
Borderline(c) ==
  /\ Len(c) = 3
  /\ \A i \in 1..3 : Registered(c[i]) /\ ~Falsy(Fingerprint[c[i].sample])
  /\ \E x, y, z \in 1..3 :
       /\ {x, y, z} = 1..3
       /\ Near(c[x], c[y])
       /\ Near(c[x], c[z])
       /\ ~Near(c[y], c[z])

\* C27: the clustering depends on the processing order: when a run has
\* processed three files of which one is within the threshold of two others
\* that are further apart, some other order of the same three files yields a
\* different partition into groups than the one the run produced.
C27_OrderDependent ==
  (pc = "done" /\ Borderline(corpus)) =>
    \E c \in Orders(corpus) :
      Partition(Clustering(c, Len(c))) # Partition(duplicatesIndex)

\* a run took the borderline file first and put all three files in one
\* group, where taking it last yields two groups
C27_Witness ==
  /\ pc = "done"
  /\ Borderline(corpus)
  /\ Near(corpus[1], corpus[2])
  /\ Near(corpus[1], corpus[3])
  /\ Partition(duplicatesIndex) = {{PathOf(corpus[i]) : i \in 1..3}}
  /\ Cardinality(Partition(Clustering(<<corpus[2], corpus[3], corpus[1]>>, 3))) = 2

\* C28: every success record of a run's manifest carries the version of that
\* manifest, however many seconds elapse between the start of the run and the
\* processing of the file.
C28_RecordVersion ==
  \A k \in 1..Len(manifest.items) :
    ~IsError(manifest.items[k]) => manifest.items[k].version = manifest.version

\* C29: at the end of a run the file stored at the processed path of every
\* success record has byte length processedSize and SHA-256
\* processedChecksum, and no two success records share a processed path.
C29_ChecksumsVerify ==
  pc = "done" =>
    /\ \A k \in 1..Len(manifest.items) :
         ~IsError(manifest.items[k]) =>
           /\ manifest.items[k].processed \in DOMAIN processedDir
           /\ processedDir[manifest.items[k].processed].length = manifest.items[k].processedSize
           /\ sha256(processedDir[manifest.items[k].processed]) = manifest.items[k].processedChecksum
    /\ \A k, l \in 1..Len(manifest.items) :
         (k # l /\ ~IsError(manifest.items[k]) /\ ~IsError(manifest.items[l])) =>
           manifest.items[k].processed # manifest.items[l].processed

\* C30: whatever history.json held before (nothing, text that is not JSON, or
\* JSON that is not an array), the step that follows the processing of the
\* files appends the run's entry to history.json, writes the snapshot under
\* versions/<version>/ and ends the run with exit status 0.
C30_AnyPriorHistory ==
  [][pc = "persist" =>
       /\ pc' = "done"
       /\ exitCode' = Some(0)
       /\ manifest.version \in DOMAIN versionsDir'
       /\ historyFile' # null
       /\ Get(historyFile').kind = "json"
       /\ Get(historyFile').array
       /\ Get(historyFile').value[Len(Get(historyFile').value)].version = manifest.version]_vars

====
